---- MODULE Spec2Model ----
(***************************************************************************)
(* The token-price Discord action: startup (main, init), the slash-command *)
(* handler, the autocomplete handler, and the message-component handler    *)
(* with its detached refresh.                                              *)
(*                                                                         *)
(* A JavaScript string is a sequence of one-character strings, so that     *)
(* toLowerCase, startsWith, split and localeCompare are computed           *)
(* character by character.  Enumerated values (response types, program     *)
(* counters, key types) are plain strings.  An optional value is a         *)
(* sequence of length 0 (undefined) or 1.                                  *)
(***************************************************************************)
EXTENDS Integers, Sequences, FiniteSets, TLC

VARIABLES
  appState,     \* "created" | "started" | "failed": what main() reached
  boot,         \* what main() resolved: key argument, env var, signing key, error
  tokens,       \* TokenPriceController.tokens
  collabToken,  \* TokenPriceController.collabToken (<<>> when find() gave undefined)
  inflight,     \* the command or autocomplete request being answered, with its result
  tasks,        \* one record per message-component interaction: ack and detached refresh
  message       \* the original message of the refresh path: its current content

vars == <<appState, boot, tokens, collabToken, inflight, tasks, message>>

----------------------------------------------------------------------------
(* Bounds of the model *)

MaxCatalog == 2
MaxExtra == 1
MaxClicks == 3
MaxTime == 1

----------------------------------------------------------------------------
(* Strings *)

LowerLetters == <<"a", "b", "c", "d", "e", "f", "g", "h", "i", "j", "k", "l", "m", "n", "o", "p", "q", "r", "s", "t", "u", "v", "w", "x", "y", "z">>
UpperLetters == <<"A", "B", "C", "D", "E", "F", "G", "H", "I", "J", "K", "L", "M", "N", "O", "P", "Q", "R", "S", "T", "U", "V", "W", "X", "Y", "Z">>

IsUpper(c) == \E i \in 1..Len(UpperLetters) : UpperLetters[i] = c
IsLower(c) == \E i \in 1..Len(LowerLetters) : LowerLetters[i] = c

LowerChar(c) ==
  IF IsUpper(c)
  THEN LowerLetters[CHOOSE i \in 1..Len(UpperLetters) : UpperLetters[i] = c]
  ELSE c

UpperChar(c) ==
  IF IsLower(c)
  THEN UpperLetters[CHOOSE i \in 1..Len(LowerLetters) : LowerLetters[i] = c]
  ELSE c

toLowerCase(s) == [i \in 1..Len(s) |-> LowerChar(s[i])]
toUpperCase(s) == [i \in 1..Len(s) |-> UpperChar(s[i])]

startsWith(s, p) == Len(p) <= Len(s) /\ SubSeq(s, 1, Len(p)) = p

(* String.prototype.split with a one-character separator: the segments
   between the separators, in order; one more segment than separators. *)
RECURSIVE SplitFrom(_, _, _, _)
SplitFrom(s, sep, i, cur) ==
  IF i > Len(s) THEN <<cur>>
  ELSE IF s[i] = sep THEN <<cur>> \o SplitFrom(s, sep, i + 1, <<>>)
  ELSE SplitFrom(s, sep, i + 1, Append(cur, s[i]))

split(s, sep) == SplitFrom(s, sep, 1, <<>>)

(* Array index: undefined (<<>>) when out of range *)
At(arr, i) == IF i \in 1..Len(arr) THEN <<arr[i]>> ELSE <<>>

(* String.prototype.localeCompare under the default (root) collation: the
   strings are compared first on primary weights (blank < punctuation <
   letters, letter case ignored), and only when these are equal on case,
   lower case before upper case. *)
PrimaryWeight(c) ==
  LET l == LowerChar(c) IN
  IF l = " " THEN 1
  ELSE IF l = "-" THEN 2
  ELSE IF l = ":" THEN 3
  ELSE IF l = "." THEN 4
  ELSE IF IsLower(l) THEN 10 + (CHOOSE i \in 1..Len(LowerLetters) : LowerLetters[i] = l)
  ELSE 5

CaseWeight(c) == IF IsUpper(c) THEN 1 ELSE 0

RECURSIVE CompareFrom(_, _, _)
CompareFrom(a, b, i) ==
  IF i > Len(a) /\ i > Len(b) THEN 0
  ELSE IF i > Len(a) THEN -1
  ELSE IF i > Len(b) THEN 1
  ELSE IF a[i] < b[i] THEN -1
  ELSE IF a[i] > b[i] THEN 1
  ELSE CompareFrom(a, b, i + 1)

localeCompare(a, b) ==
  LET p == CompareFrom([i \in 1..Len(a) |-> PrimaryWeight(a[i])],
                       [i \in 1..Len(b) |-> PrimaryWeight(b[i])], 1)
  IN IF p # 0 THEN p
     ELSE CompareFrom([i \in 1..Len(a) |-> CaseWeight(a[i])],
                      [i \in 1..Len(b) |-> CaseWeight(b[i])], 1)

(* Array.prototype.sort((a, b) => a.name.localeCompare(b.name)): stable *)
RECURSIVE InsertChoice(_, _)
InsertChoice(sorted, c) ==
  IF sorted = <<>> THEN <<c>>
  ELSE IF localeCompare(c.name, sorted[Len(sorted)].name) >= 0 THEN Append(sorted, c)
  ELSE Append(InsertChoice(SubSeq(sorted, 1, Len(sorted) - 1), c), sorted[Len(sorted)])

RECURSIVE SortChoices(_)
SortChoices(cs) ==
  IF cs = <<>> THEN <<>>
  ELSE InsertChoice(SortChoices(SubSeq(cs, 1, Len(cs) - 1)), cs[Len(cs)])

(* Array.prototype.slice(0, n) *)
slice(arr, n) == SubSeq(arr, 1, IF Len(arr) < n THEN Len(arr) ELSE n)

----------------------------------------------------------------------------
(* Literals of the program *)

CollabLandId == <<"c", "o", "l", "l", "a", "b", "-", "l", "a", "n", "d">>
CollabDotLand == <<"c", "o", "l", "l", "a", "b", ".", "l", "a", "n", "d">>
TokenPriceCommand == <<"t", "o", "k", "e", "n", "-", "p", "r", "i", "c", "e">>
RefreshNamespace == <<"t", "o", "k", "e", "n", "-", "p", "r", "i", "c", "e", ":", "r", "e", "f", "r", "e", "s", "h", "-", "b", "u", "t", "t", "o", "n", ":">>
UnknownTokenText == <<"U", "n", "k", "n", "o", "w", "n", " ", "t", "o", "k", "e", "n", " ">>
MaxChoices == 20

----------------------------------------------------------------------------
(* The catalogs and inputs the model draws from *)

Token(id, symbol, name) == [id |-> id, symbol |-> symbol, name |-> name]

TokenPool ==
  { Token(CollabLandId, <<"c", "o", "l", "l", "a", "b">>, <<"C", "o", "l", "l", "a", "b", ".", "L", "a", "n", "d">>),
    Token(<<"b", "i", "t">>, <<"b", "t">>, <<"B", "i", "t">>),
    Token(<<"b", "t", "2">>, <<"B", "T">>, <<"b", "i", "t">>),
    Token(<<"a", ":", "b">>, <<"c", "o">>, <<"C", "o">>),
    Token(<<"b">>, <<"b">>, <<"Z", "e", "d">>) }

RECURSIVE SeqsUpTo(_, _)
SeqsUpTo(S, n) ==
  IF n = 0 THEN {<<>>}
  ELSE LET shorter == SeqsUpTo(S, n - 1)
       IN shorter \cup {Append(s, x) : s \in {t \in shorter : Len(t) = n - 1}, x \in S}

(* A catalog with more matching entries than the cap of the autocomplete:
   MaxChoices + MaxExtra tokens whose symbols all start with "b", listed in
   an order that is not the order of their display strings. *)
BigCatalog ==
  [i \in 1..(MaxChoices + MaxExtra) |->
     Token(<<"k", LowerLetters[i]>>,
           <<"b", LowerLetters[((i * 7) % 26) + 1]>>,
           <<UpperLetters[i]>>)]

Catalogs ==
  SeqsUpTo(TokenPool, MaxCatalog)
    \cup {BigCatalog, <<Token(CollabLandId, <<"c", "o", "l", "l", "a", "b">>, <<"C", "o", "l", "l", "a", "b", ".", "L", "a", "n", "d">>)>> \o BigCatalog}

Inputs ==
  { <<>>, <<"b">>, <<"b", "t">>, <<"B", "T">>, <<"B", "i", "t">>, <<"B", "I", "T">>, <<"c", "o">>, <<"C", "O">>, <<"c", "o", "l", "l", "a", "b">>, <<"C", "o", "l", "l", "a", "b", ".", "L", "a", "n", "d">>,
    <<"C", "O", "L", "L", "A", "B", "-", "L", "A", "N", "D">>, <<"a", ":", "b">>, <<"x">> }

Times == 1..MaxTime

----------------------------------------------------------------------------
(* Startup: main() and TokenPriceController.init() *)

NoKey == "<none>"
KeyArgs == {NoKey, "ecdsa", "ed25519", "rsa", "0x04ab"}

(* publicKey ?? process.argv[2] ?? getEnvVar(...) *)
ResolvePublicKey(param, argv2, env) ==
  IF param # NoKey THEN param ELSE IF argv2 # NoKey THEN argv2 ELSE env

GeneratesKey(publicKey) ==
  publicKey = NoKey \/ publicKey = "ecdsa" \/ publicKey = "ed25519"

(* The key handling of main(): the branch on the argument, then the switch on
   the signature type.  error is the value the thrown Error names, or NoKey. *)
MainKeys(publicKey, restConfigured) ==
  IF GeneratesKey(publicKey)
  THEN LET sigType == IF publicKey = NoKey THEN "ed25519" ELSE publicKey IN
       CASE sigType = "ecdsa" ->
              [keyArg |-> publicKey, signingKey |-> "ecdsa-private",
               envKey |-> "ecdsa-public", logged |-> ~restConfigured, error |-> NoKey]
         [] sigType = "ed25519" ->
              [keyArg |-> publicKey, signingKey |-> "ed25519-private",
               envKey |-> "ed25519-public", logged |-> ~restConfigured, error |-> NoKey]
         [] OTHER ->
              [keyArg |-> publicKey, signingKey |-> "",
               envKey |-> NoKey, logged |-> FALSE, error |-> sigType]
  ELSE [keyArg |-> publicKey, signingKey |-> "",
        envKey |-> publicKey, logged |-> FALSE, error |-> NoKey]

(* this.tokens.find(t => t.id === 'collab-land') *)
FindCollabToken(catalog) ==
  IF \E i \in 1..Len(catalog) : catalog[i].id = CollabLandId
  THEN <<catalog[CHOOSE i \in 1..Len(catalog) :
                   /\ catalog[i].id = CollabLandId
                   /\ \A j \in 1..(i - 1) : catalog[j].id # CollabLandId]>>
  ELSE <<>>

NoRequest == [kind |-> "none"]

Init ==
  /\ appState = "created"
  /\ boot = [keyArg |-> NoKey, signingKey |-> "", envKey |-> NoKey,
             logged |-> FALSE, error |-> NoKey]
  /\ tokens = <<>>
  /\ collabToken = <<>>
  /\ inflight = NoRequest
  /\ tasks = <<>>
  /\ message = <<>>

(* main(config, publicKey): resolve the key argument, generate or set the key,
   then construct and start the application, whose start runs init(): the
   catalog is fetched once (getTokens) and the collab-land entry looked up.
   A key error or a failed catalog fetch rejects main before the application
   is started. *)
Main ==
  /\ appState = "created"
  /\ \E param \in KeyArgs, argv2 \in KeyArgs, env \in KeyArgs, restConfigured \in BOOLEAN :
       LET keys == MainKeys(ResolvePublicKey(param, argv2, env), restConfigured) IN
       /\ boot' = keys
       /\ IF keys.error # NoKey
          THEN /\ appState' = "failed"
               /\ UNCHANGED <<tokens, collabToken>>
          ELSE \/ /\ appState' = "failed"        \* getTokens() rejects
                  /\ UNCHANGED <<tokens, collabToken>>
               \/ \E catalog \in Catalogs :
                    /\ appState' = "started"
                    /\ tokens' = catalog
                    /\ collabToken' = FindCollabToken(catalog)
  /\ UNCHANGED <<inflight, tasks, message>>

----------------------------------------------------------------------------
(* Quote Fetcher and Response Builder *)

(* What getTokenQuote(id) can resolve to: the provider's record for the id,
   with or without a ticker.  A failed fetch is [ok |-> FALSE]. *)
Quotes(id) ==
  { [id |-> id, symbol |-> <<"b", "t", "c">>, name |-> <<"B", "i", "t", "c", "o", "i", "n">>, tickers |-> t] :
      t \in {<<>>, <<7>>} }

FetchResults(id) ==
  {[ok |-> FALSE]} \cup {[ok |-> TRUE, quote |-> q] : q \in Quotes(id)}

(* `token-price:refresh-button:${id}` *)
RefreshCustomId(id) == RefreshNamespace \o id

(* The response getQuoteMessage builds from a quote at time now *)
QuoteResponse(id, quote, now) ==
  [type |-> "ChannelMessageWithSource",
   data |->
     [embeds |-> <<[title |-> <<"$">> \o toUpperCase(quote.symbol) \o <<" ", "(">> \o quote.name \o <<")">>,
                    price |-> quote.tickers[1],
                    footer |-> now]>>,
      components |-> <<[refresh |-> [label |-> "Refresh", style |-> "Primary",
                                     custom_id |-> RefreshCustomId(id)],
                        chart |-> [label |-> "Chart", style |-> "Link",
                                   coin |-> quote.id]]>>,
      flags |-> "Ephemeral"]]

(* getQuoteMessage(request, id): await the quote, read its first ticker, build
   the response.  A failed fetch rejects; a quote without a ticker makes
   ticker.converted_last a read of undefined, a TypeError. *)
getQuoteMessage(id, fetched, now) ==
  IF ~fetched.ok THEN [thrown |-> "FetchError"]
  ELSE IF fetched.quote.tickers = <<>> THEN [thrown |-> "TypeError"]
  ELSE [thrown |-> "", response |-> QuoteResponse(id, fetched.quote, now)]

(* buildSimpleResponse(text) *)
buildSimpleResponse(text) ==
  [type |-> "ChannelMessageWithSource", data |-> [content |-> text]]

----------------------------------------------------------------------------
(* Slash command *)

(* A lookup that does not lower-case the user's input *)
TokenMatchesExactInput(t, symbol) ==
  symbol \in {toLowerCase(t.id), toLowerCase(t.name), toLowerCase(t.symbol)}

(* The test of this.tokens.find in handleApplicationCommand *)
TokenMatches(t, symbol) ==
  toLowerCase(symbol) \in
    {toLowerCase(t.id), toLowerCase(t.name), toLowerCase(t.symbol)}

(* A lookup that keeps the last matching entry instead of the first *)
FindLastTokenIndex(catalog, symbol) ==
  IF \E i \in 1..Len(catalog) : TokenMatches(catalog[i], symbol)
  THEN CHOOSE i \in 1..Len(catalog) :
         /\ TokenMatches(catalog[i], symbol)
         /\ \A j \in (i + 1)..Len(catalog) : ~TokenMatches(catalog[j], symbol)
  ELSE 0

(* this.tokens.find(...): the index of the first matching entry, 0 for none *)
FindTokenIndex(catalog, symbol) ==
  IF \E i \in 1..Len(catalog) : TokenMatches(catalog[i], symbol)
  THEN CHOOSE i \in 1..Len(catalog) :
         /\ TokenMatches(catalog[i], symbol)
         /\ \A j \in 1..(i - 1) : ~TokenMatches(catalog[j], symbol)
  ELSE 0

CommandNames == {TokenPriceCommand, <<"p", "i", "n", "g">>}

(* An unknown-token answer that echoes the normalised symbol *)
UnknownTokenLowered(symbol) ==
  buildSimpleResponse(UnknownTokenText \o toLowerCase(symbol))

(* buildSimpleResponse(`Unknown token ${symbol}`) *)
UnknownToken(symbol) == buildSimpleResponse(UnknownTokenText \o symbol)

(* handleApplicationCommand.  option is the `symbol` option (<<>> when absent),
   fetched the outcome of the quote fetch it may issue.  The result records the
   index of the token found (0: none), the ids whose quote was requested, what
   was thrown, and the response returned. *)
handleApplicationCommand(catalog, name, option, fetched, now) ==
  IF name = TokenPriceCommand
  THEN LET symbol == IF option = <<>> THEN <<>> ELSE option[1]
           found == FindTokenIndex(catalog, symbol)
       IN IF found = 0
          THEN [found |-> 0, fetchedIds |-> <<>>, thrown |-> "",
                response |-> <<UnknownToken(symbol)>>]
          ELSE LET r == getQuoteMessage(catalog[found].id, fetched, now) IN
               [found |-> found, fetchedIds |-> <<catalog[found].id>>,
                thrown |-> r.thrown,
                response |-> IF r.thrown = "" THEN <<r.response>> ELSE <<>>]
  ELSE [found |-> 0, fetchedIds |-> <<>>, thrown |-> "",
        response |-> <<buildSimpleResponse(
                         <<"S", "l", "a", "s", "h", " ", "c", "o", "m", "m", "a", "n", "d", " ">> \o name \o <<" ", "i", "s", " ", "n", "o", "t", " ", "i", "m", "p", "l", "e", "m", "e", "n", "t", "e", "d", ".">>)>>]

Command ==
  /\ appState = "started"
  /\ inflight = NoRequest
  /\ \E name \in CommandNames, option \in {<<>>} \cup {<<v>> : v \in Inputs}, now \in Times :
       LET symbol == IF option = <<>> THEN <<>> ELSE option[1]
           found == IF name = TokenPriceCommand THEN FindTokenIndex(tokens, symbol) ELSE 0
           outcomes == IF found = 0 THEN {[ok |-> FALSE]}
                       ELSE FetchResults(tokens[found].id)
       IN \E fetched \in outcomes :
            inflight' = [kind |-> "command", name |-> name, option |-> option,
                     result |-> handleApplicationCommand(tokens, name, option, fetched, now)]
  /\ UNCHANGED <<appState, boot, tokens, collabToken, tasks, message>>

----------------------------------------------------------------------------
(* Autocomplete *)

Option(name, type, focused, value) ==
  [name |-> name, type |-> type, focused |-> focused, value |-> value]

OptionLists ==
  {<<>>,
   <<Option("symbol", "String", FALSE, <<"b", "t">>)>>,
   <<Option("amount", "Integer", TRUE, <<>>)>>,
   <<Option("amount", "Integer", TRUE, <<>>), Option("symbol", "String", TRUE, <<"b">>)>>}
    \cup {<<Option("symbol", "String", TRUE, v)>> : v \in Inputs}

(* interaction.data.options.find(o => o.name === 'symbol' && o.type === String && o.focused) *)
IsFocusedSymbol(o) == o.name = "symbol" /\ o.type = "String" /\ o.focused

FindFocusedOption(options) ==
  IF \E i \in 1..Len(options) : IsFocusedSymbol(options[i])
  THEN <<options[CHOOSE i \in 1..Len(options) :
                   /\ IsFocusedSymbol(options[i])
                   /\ \A j \in 1..(i - 1) : ~IsFocusedSymbol(options[j])]>>
  ELSE <<>>

(* The filter of the autocomplete: not the platform's own token, and the
   lower-cased symbol starts with the prefix *)
AutoCompleteFilter(c, prefix) ==
  IF c.id = CollabLandId THEN FALSE
  ELSE startsWith(toLowerCase(c.symbol), prefix)

(* c => ({name: `${c.symbol}: ${c.name}`, value: c.id}) *)
ToChoice(c) == [name |-> c.symbol \o <<":", " ">> \o c.name, value |-> c.id]

(* The pipeline with the truncation before the sort *)
MatchingChoicesCutFirst(catalog, prefix) ==
  LET kept == SelectSeq(catalog, LAMBDA c : AutoCompleteFilter(c, prefix))
      mapped == [i \in 1..Len(kept) |-> ToChoice(kept[i])]
  IN SortChoices(slice(mapped, MaxChoices))

(* filter, map, sort, slice(0, 20) *)
MatchingChoices(catalog, prefix) ==
  LET kept == SelectSeq(catalog, LAMBDA c : AutoCompleteFilter(c, prefix))
      mapped == [i \in 1..Len(kept) |-> ToChoice(kept[i])]
  IN slice(SortChoices(mapped), MaxChoices)

(* The test with the `collab.land` spelling forgotten *)
IsCollabPrefixDashOnly(prefix) == startsWith(CollabLandId, prefix)

(* 'collab.land'.startsWith(prefix) || 'collab-land'.startsWith(prefix) *)
IsCollabPrefix(prefix) ==
  startsWith(CollabDotLand, prefix) \/ startsWith(CollabLandId, prefix)

(* {name: `${collabToken.symbol} : ${collabToken.name}`, value: collabToken.id} *)
CollabChoice(t) == [name |-> t.symbol \o <<" ", ":", " ">> \o t.name, value |-> t.id]

(* handleApplicationCommandAutoComplete: no response (<<>>) without a focused
   string option `symbol`; a read of this.collabToken.symbol throws a
   TypeError when init() found no collab-land entry. *)
handleApplicationCommandAutoComplete(catalog, collab, options) ==
  LET option == FindFocusedOption(options) IN
  IF option = <<>> THEN [thrown |-> "", response |-> <<>>]
  ELSE LET prefix == toLowerCase(option[1].value)
           choices == MatchingChoices(catalog, prefix)
       IN IF IsCollabPrefix(prefix)
          THEN IF collab = <<>> THEN [thrown |-> "TypeError", response |-> <<>>]
               ELSE [thrown |-> "",
                     response |-> <<[type |-> "ApplicationCommandAutocompleteResult",
                                     data |-> [choices |-> <<CollabChoice(collab[1])>> \o choices]]>>]
          ELSE [thrown |-> "",
                response |-> <<[type |-> "ApplicationCommandAutocompleteResult",
                                data |-> [choices |-> choices]]>>]

AutoComplete ==
  /\ appState = "started"
  /\ inflight = NoRequest
  /\ \E options \in OptionLists :
       inflight' = [kind |-> "autocomplete", options |-> options,
                result |-> handleApplicationCommandAutoComplete(tokens, collabToken, options)]
  /\ UNCHANGED <<appState, boot, tokens, collabToken, tasks, message>>

(* The response (or the rejection) is handed back to the hosting framework.
   The two handlers read only the catalog, which nothing writes after
   init(), so requests are served one at a time here. *)
Respond ==
  /\ inflight # NoRequest
  /\ inflight' = NoRequest
  /\ UNCHANGED <<appState, boot, tokens, collabToken, tasks, message>>

Next == Main \/ Command \/ AutoComplete \/ Respond

Spec == Init /\ [][Next]_vars

----------------------------------------------------------------------------
(* Message components and the detached refresh *)

DeferredMessageUpdate == [type |-> "DeferredMessageUpdate"]

(* A handler that acknowledges only inside the refresh branch *)
handleMessageComponentAckInBranch(custom_id) ==
  IF startsWith(custom_id, RefreshNamespace)
  THEN [custom_id |-> custom_id, ack |-> DeferredMessageUpdate,
        id |-> At(split(custom_id, ":"), 3), pc |-> "fetching",
        fetches |-> 1, fetch |-> "pending", edits |-> 0, logs |-> 0,
        thrown |-> "", rendered |-> <<>>, payload |-> <<>>]
  ELSE [custom_id |-> custom_id, ack |-> [type |-> "undefined"],
        id |-> <<>>, pc |-> "none",
        fetches |-> 0, fetch |-> "none", edits |-> 0, logs |-> 0,
        thrown |-> "", rendered |-> <<>>, payload |-> <<>>]

(* handleMessageComponent(request): what the call has done when it returns.
   Inside the refresh namespace the id is the third colon-delimited segment
   and refresh() has run up to its first await, the quote fetch being issued;
   outside it nothing is started.  The acknowledgement is returned either way. *)
handleMessageComponent(custom_id) ==
  IF startsWith(custom_id, RefreshNamespace)
  THEN [custom_id |-> custom_id, ack |-> DeferredMessageUpdate,
        id |-> At(split(custom_id, ":"), 3), pc |-> "fetching",
        fetches |-> 1, fetch |-> "pending", edits |-> 0, logs |-> 0,
        thrown |-> "", rendered |-> <<>>, payload |-> <<>>]
  ELSE [custom_id |-> custom_id, ack |-> DeferredMessageUpdate,
        id |-> <<>>, pc |-> "none",
        fetches |-> 0, fetch |-> "none", edits |-> 0, logs |-> 0,
        thrown |-> "", rendered |-> <<>>, payload |-> <<>>]

(* const updated = message.data *)
EditPayload(response) == response.data

(* refresh(): the continuation after `await this.getQuoteMessage(request, id)`.
   A rejection ends the task in the .catch of handleMessageComponent, which
   logs it; otherwise the edit of the original message is issued. *)
RefreshAfterQuote(task, fetched, now) ==
  LET r == getQuoteMessage(task.id[1], fetched, now) IN
  IF r.thrown # ""
  THEN [task EXCEPT !.pc = "logged", !.logs = @ + 1, !.thrown = r.thrown,
                    !.fetch = IF fetched.ok THEN "ok" ELSE "failed"]
  ELSE [task EXCEPT !.pc = "editing", !.edits = @ + 1, !.fetch = "ok",
                    !.rendered = <<r.response>>,
                    !.payload = <<EditPayload(r.response)>>]

(* refresh(): the continuation after `await this.editMessage(...)` *)
RefreshAfterEdit(task, ok) ==
  IF ok THEN [task EXCEPT !.pc = "edited"]
  ELSE [task EXCEPT !.pc = "logged", !.logs = @ + 1, !.thrown = "EditError"]

(* The custom ids a click can carry: the Refresh button the message shows
   now, or another component under the action's `token-price:*` pattern. *)
ClickableIds ==
  {message[1].data.components[1].refresh.custom_id, <<"t", "o", "k", "e", "n", "-", "p", "r", "i", "c", "e", ":", "h", "e", "l", "p">>}

MessageComponent ==
  /\ appState = "started"
  /\ message # <<>>
  /\ Len(tasks) < MaxClicks
  /\ \E custom_id \in ClickableIds :
       tasks' = Append(tasks,
                  [call |-> handleMessageComponent(custom_id),
                   builtFor |-> IF startsWith(custom_id, RefreshNamespace)
                                THEN <<message[1].builtFor>> ELSE <<>>])
  /\ UNCHANGED <<appState, boot, tokens, collabToken, inflight, message>>

QuoteArrives ==
  \E i \in 1..Len(tasks) :
    /\ tasks[i].call.pc = "fetching"
    /\ \E fetched \in FetchResults(tasks[i].call.id[1]), now \in Times :
         tasks' = [tasks EXCEPT ![i].call = RefreshAfterQuote(@, fetched, now)]
    /\ UNCHANGED <<appState, boot, tokens, collabToken, inflight, message>>

EditReturns ==
  \E i \in 1..Len(tasks) :
    /\ tasks[i].call.pc = "editing"
    /\ \/ /\ tasks' = [tasks EXCEPT ![i].call = RefreshAfterEdit(@, TRUE)]
          /\ message' = <<[data |-> tasks[i].call.payload[1],
                           builtFor |-> tasks[i].call.id[1]]>>
       \/ /\ tasks' = [tasks EXCEPT ![i].call = RefreshAfterEdit(@, FALSE)]
          /\ UNCHANGED message
    /\ UNCHANGED <<appState, boot, tokens, collabToken, inflight>>

(* The refresh path starts from a running application and a message that a
   token-price command rendered for a token of the catalog. *)
SampleCatalog ==
  <<Token(CollabLandId, <<"c", "o", "l", "l", "a", "b">>, <<"C", "o", "l", "l", "a", "b", ".", "L", "a", "n", "d">>), Token(<<"b", "i", "t">>, <<"b", "t">>, <<"B", "i", "t">>),
    Token(<<"a", ":", "b">>, <<"c", "o">>, <<"C", "o">>)>>

InitStarted ==
  /\ appState = "started"
  /\ boot = MainKeys(NoKey, FALSE)
  /\ tokens = SampleCatalog
  /\ collabToken = FindCollabToken(SampleCatalog)
  /\ inflight = NoRequest
  /\ tasks = <<>>
  /\ \E i \in 1..Len(SampleCatalog), now \in Times :
       message = <<[data |-> QuoteResponse(SampleCatalog[i].id,
                                           [id |-> SampleCatalog[i].id, symbol |-> <<"b", "t", "c">>,
                                            name |-> <<"B", "i", "t", "c", "o", "i", "n">>, tickers |-> <<7>>],
                                           now).data,
                    builtFor |-> SampleCatalog[i].id]>>

NextRefresh == MessageComponent \/ QuoteArrives \/ EditReturns

RefreshSpec == InitStarted /\ [][NextRefresh]_vars

----------------------------------------------------------------------------
(* Properties of the slash command *)

IsTokenPriceCommand == inflight.kind = "command" /\ inflight.name = TokenPriceCommand

(* The symbol a command carries: the empty string when the option is absent *)
SymbolOf(option) == IF option = <<>> THEN <<>> ELSE option[1]

EqualIgnoringCase(a, b) == toLowerCase(a) = toLowerCase(b)

(* Entry i of the catalog equals symbol s by id, name or symbol, letter case aside *)
EntryEquals(i, s) ==
  \/ EqualIgnoringCase(tokens[i].id, s)
  \/ EqualIgnoringCase(tokens[i].name, s)
  \/ EqualIgnoringCase(tokens[i].symbol, s)

(* C2: the quote a token-price command fetches is that of the earliest catalog
   entry whose id, name or symbol equals the symbol option when both are
   lower-cased, also when later entries match as well. *)
C2_FirstMatchFetched ==
  IsTokenPriceCommand =>
    LET s == SymbolOf(inflight.option) IN
    \A i \in 1..Len(tokens) :
      (EntryEquals(i, s) /\ \A j \in 1..(i - 1) : ~EntryEquals(j, s))
        => /\ inflight.result.found = i
           /\ inflight.result.fetchedIds = <<tokens[i].id>>

(* C2 witness: a command matched by two entries with different ids was
   answered from the earlier one. *)
C2_Witness ==
  /\ IsTokenPriceCommand
  /\ \E i, j \in 1..Len(tokens) :
       /\ i < j
       /\ tokens[i].id # tokens[j].id
       /\ EntryEquals(i, SymbolOf(inflight.option))
       /\ EntryEquals(j, SymbolOf(inflight.option))
       /\ inflight.result.fetchedIds = <<tokens[i].id>>

(* C3 as stated: whichever entry the symbol option equals by id, name or
   symbol in any letter case, the quote fetched is that of this very entry. *)
C3_EveryEntryResolvesToItself ==
  IsTokenPriceCommand =>
    \A i \in 1..Len(tokens) :
      EntryEquals(i, SymbolOf(inflight.option))
        => inflight.result.fetchedIds = <<tokens[i].id>>

(* C3 amended: a symbol option equal to an entry's id, name or symbol in any
   letter case is never answered as unknown; the quote fetched is that of an
   entry that equals the option in the same way and stands no later in the
   catalog, and it is that of the entry itself when no earlier entry equals
   the option. *)
C3_EntryResolvesUnlessShadowed ==
  IsTokenPriceCommand =>
    LET s == SymbolOf(inflight.option) IN
    \A i \in 1..Len(tokens) :
      EntryEquals(i, s)
        => /\ inflight.result.found \in 1..i
           /\ EntryEquals(inflight.result.found, s)
           /\ inflight.result.fetchedIds = <<tokens[inflight.result.found].id>>
           /\ (\A j \in 1..(i - 1) : ~EntryEquals(j, s))
                => inflight.result.fetchedIds = <<tokens[i].id>>

(* C3 witness: an option written in another letter case than the entry's own
   field resolved to that entry, and its quote was rendered. *)
C3_Witness ==
  /\ IsTokenPriceCommand
  /\ inflight.result.response # <<>>
  /\ \E i \in 1..Len(tokens) :
       /\ inflight.result.fetchedIds = <<tokens[i].id>>
       /\ SymbolOf(inflight.option) \notin {tokens[i].id, tokens[i].name, tokens[i].symbol}
       /\ EqualIgnoringCase(tokens[i].name, SymbolOf(inflight.option))
       /\ inflight.result.response[1].data.components[1].chart.coin = tokens[i].id

(* C4: a token-price command whose symbol option equals no entry's id, name or
   symbol is answered at once with the text "Unknown token " followed by the
   option as the user wrote it (empty when absent), and no quote is fetched. *)
C4_UnknownTokenVerbatim ==
  (IsTokenPriceCommand
     /\ \A i \in 1..Len(tokens) : ~EntryEquals(i, SymbolOf(inflight.option)))
    => /\ inflight.result.thrown = ""
       /\ inflight.result.fetchedIds = <<>>
       /\ inflight.result.response # <<>>
       /\ inflight.result.response[1].data.content
            = <<"U", "n", "k", "n", "o", "w", "n", " ", "t", "o", "k", "e", "n", " ">> \o SymbolOf(inflight.option)

(* C4 witness: an unmatched symbol with upper-case letters was echoed. *)
C4_Witness ==
  /\ IsTokenPriceCommand
  /\ Len(tokens) > 0
  /\ inflight.option = <<<<"B", "I", "T">>>>
  /\ inflight.result.response # <<>>
  /\ inflight.result.response[1].data.content = <<"U", "n", "k", "n", "o", "w", "n", " ", "t", "o", "k", "e", "n", " ", "B", "I", "T">>

----------------------------------------------------------------------------
(* Properties of the autocomplete *)

HasAutoCompleteResponse ==
  inflight.kind = "autocomplete" /\ inflight.result.response # <<>>

(* The value of the focused string option `symbol` of the request *)
FocusedValue ==
  LET os == inflight.options
      i == CHOOSE k \in 1..Len(os) :
             os[k].name = "symbol" /\ os[k].type = "String" /\ os[k].focused
  IN os[i].value

Choices == inflight.result.response[1].data.choices

(* The choices other than the platform's own token *)
OtherChoices == SelectSeq(Choices, LAMBDA c : c.value # CollabLandId)

(* The catalog entries an input selects: not collab-land, symbol starting
   with the input, letter case aside *)
Selected(v) ==
  {i \in 1..Len(tokens) :
     /\ tokens[i].id # CollabLandId
     /\ startsWith(toLowerCase(tokens[i].symbol), toLowerCase(v))}

Display(i) == [name |-> tokens[i].symbol \o <<":", " ">> \o tokens[i].name, value |-> tokens[i].id]

Occurrences(seq, c) == Cardinality({k \in 1..Len(seq) : seq[k] = c})

(* C6: the choices other than the platform's token are the first 20, in
   ascending order of "<symbol>: <name>", of the entries other than
   collab-land whose lower-cased symbol starts with the lower-cased input:
   each choice is the display string and id of a selected entry, no entry is
   listed more often than it is selected, the list is in ascending order and
   has min(20, selected) choices, and an entry left out sorts no earlier than
   every choice listed. *)
C6_FirstTwentySorted ==
  HasAutoCompleteResponse =>
    LET sel == Selected(FocusedValue)
        others == OtherChoices
        n == Cardinality(sel)
    IN /\ Len(others) = (IF n < 20 THEN n ELSE 20)
       /\ \A k \in 1..Len(others) : \E i \in sel : others[k] = Display(i)
       /\ \A k, l \in 1..Len(others) :
            k < l => localeCompare(others[k].name, others[l].name) <= 0
       /\ \A i \in sel :
            LET listed == Occurrences(others, Display(i))
                present == Cardinality({j \in sel : Display(j) = Display(i)})
            IN /\ listed <= present
               /\ listed < present =>
                    \A k \in 1..Len(others) :
                      localeCompare(others[k].name, Display(i).name) <= 0

(* C6 witness: more than 20 entries were selected and 20 of them listed,
   with a selected entry left out. *)
C6_Witness ==
  /\ HasAutoCompleteResponse
  /\ Cardinality(Selected(FocusedValue)) > 20
  /\ Len(OtherChoices) = 20
  /\ \E i \in Selected(FocusedValue) : Occurrences(OtherChoices, Display(i)) = 0

(* The lower-cased input is a prefix of `collab.land` or of `collab-land` *)
PrefixOfCollab(v) ==
  LET p == toLowerCase(v) IN
  \E n \in 0..11 : p = SubSeq(<<"c", "o", "l", "l", "a", "b", ".", "l", "a", "n", "d">>, 1, n) \/ p = SubSeq(<<"c", "o", "l", "l", "a", "b", "-", "l", "a", "n", "d">>, 1, n)

ListsCollab == \E k \in 1..Len(Choices) : Choices[k].value = CollabLandId

(* C7 as stated: for every catalog and every input the autocomplete answers,
   and the platform's token is a choice exactly when the input is a prefix of
   `collab.land` or `collab-land`; it is then the first of at most 21
   choices, and there are at most 20 choices otherwise. *)
C7_CollabChoiceForEveryCatalog ==
  (inflight.kind = "autocomplete"
     /\ FindFocusedOption(inflight.options) # <<>>)
    => /\ inflight.result.response # <<>>
       /\ ListsCollab <=> PrefixOfCollab(FocusedValue)
       /\ ListsCollab => Choices[1].value = CollabLandId /\ Len(Choices) <= 21
       /\ ~ListsCollab => Len(Choices) <= 20

(* C7 amended: when the catalog has an entry with id collab-land, the
   platform's token is a choice exactly when the lower-cased input is a prefix
   of `collab.land` or `collab-land`; it is then the first of at most 21
   choices, and there are at most 20 choices otherwise.  When the catalog
   has no such entry, an input that is such a prefix gets no response (the
   handler throws), and any other input gets at most 20 choices, none of them
   the platform's token. *)
C7_CollabChoiceWhenInCatalog ==
  (inflight.kind = "autocomplete"
     /\ FindFocusedOption(inflight.options) # <<>>)
    => IF \E i \in 1..Len(tokens) : tokens[i].id = CollabLandId
       THEN /\ inflight.result.response # <<>>
            /\ ListsCollab <=> PrefixOfCollab(FocusedValue)
            /\ ListsCollab => Choices[1].value = CollabLandId /\ Len(Choices) <= 21
            /\ ~ListsCollab => Len(Choices) <= 20
       ELSE IF PrefixOfCollab(FocusedValue)
            THEN inflight.result.response = <<>> /\ inflight.result.thrown = "TypeError"
            ELSE /\ inflight.result.response # <<>>
                 /\ ~ListsCollab
                 /\ Len(Choices) <= 20

(* C7 witness: the platform's token was put in front of 20 other choices. *)
C7_Witness ==
  /\ HasAutoCompleteResponse
  /\ PrefixOfCollab(FocusedValue)
  /\ Len(Choices) = 21
  /\ Choices[1].value = CollabLandId
  /\ \A k \in 2..21 : Choices[k].value # CollabLandId

----------------------------------------------------------------------------
(* Properties of startup *)

(* C9: when the key argument main resolved is neither absent nor one of the
   supported types ecdsa and ed25519, startup fails with an error naming the
   value and the application is not started. *)
C9_UnsupportedKeyTypeIsFatal ==
  (appState # "created" /\ boot.keyArg \notin {NoKey, "ecdsa", "ed25519"})
    => appState = "failed" /\ boot.error = boot.keyArg

----------------------------------------------------------------------------
(* Properties of the refresh path *)

IsRefresh(t) == t.builtFor # <<>>

(* C1: every message-component interaction is acknowledged with
   DeferredMessageUpdate: in the step that handles it the acknowledgement is
   there while the refresh it may have started has not got its quote yet, and
   the acknowledgement stays the same through every later outcome of the
   refresh, and is the same outside the refresh namespace. *)
C1_DeferredAckBeforeRefresh ==
  [][\A i \in 1..Len(tasks') :
       /\ tasks'[i].call.ack = [type |-> "DeferredMessageUpdate"]
       /\ i > Len(tasks) => tasks'[i].call.pc \in {"fetching", "none"}
       /\ i > Len(tasks) /\ startsWith(tasks'[i].call.custom_id, <<"t", "o", "k", "e", "n", "-", "p", "r", "i", "c", "e", ":", "r", "e", "f", "r", "e", "s", "h", "-", "b", "u", "t", "t", "o", "n", ":">>)
            => tasks'[i].call.pc = "fetching"]_vars

(* C1 witness: acknowledged interactions whose refresh failed at the fetch,
   failed at the edit, succeeded, and one outside the namespace. *)
C1_Witness ==
  /\ \E i \in 1..Len(tasks) :
       tasks[i].call.thrown = "FetchError" /\ tasks[i].call.ack = DeferredMessageUpdate
  /\ \E i \in 1..Len(tasks) :
       tasks[i].call.thrown = "EditError" /\ tasks[i].call.ack = DeferredMessageUpdate
  /\ \E i \in 1..Len(tasks) :
       tasks[i].call.pc = "none" /\ tasks[i].call.ack = DeferredMessageUpdate

(* C5: the payload of the message edit has the embeds and components of the
   response rendered for the command, and has no flags. *)
C5_EditPayloadWithoutFlags ==
  \A i \in 1..Len(tasks) :
    tasks[i].call.payload # <<>>
      => /\ tasks[i].call.payload[1].embeds = tasks[i].call.rendered[1].data.embeds
         /\ tasks[i].call.payload[1].components = tasks[i].call.rendered[1].data.components
         /\ "flags" \notin DOMAIN tasks[i].call.payload[1]

(* C8: every refresh click has exactly one quote fetch of its own, at most one
   edit attempt and at most one logged failure; a refresh whose quote fetch
   succeeded has made exactly one edit attempt, and one that ended in a
   logged failure has logged it once. *)
C8_EachClickFetchesAndEditsOnce ==
  \A i \in 1..Len(tasks) :
    IsRefresh(tasks[i])
      => /\ tasks[i].call.fetches = 1
         /\ tasks[i].call.edits <= 1
         /\ tasks[i].call.logs <= 1
         /\ tasks[i].call.fetch = "ok" => tasks[i].call.edits = 1
         /\ tasks[i].call.pc = "logged" => tasks[i].call.logs = 1
         /\ tasks[i].call.pc = "edited" => tasks[i].call.logs = 0

(* C10: a click on a Refresh button re-fetches the quote of the id the button
   was built for, whatever the id, ids with a colon included. *)
C10_RefreshIdRoundTrip ==
  \A i \in 1..Len(tasks) :
    IsRefresh(tasks[i])
      => /\ tasks[i].call.custom_id = <<"t", "o", "k", "e", "n", "-", "p", "r", "i", "c", "e", ":", "r", "e", "f", "r", "e", "s", "h", "-", "b", "u", "t", "t", "o", "n", ":">> \o tasks[i].builtFor[1]
         /\ tasks[i].call.id = tasks[i].builtFor

====
